---- MODULE Spec2Model ----
(***************************************************************************)
(* Model of interesting_blaseball_games/view.py: the View base class       *)
(* (construction, table_description, assemble_column_headers) and the two  *)
(* renderers RichView and MarkdownView (make_table, _render_table).        *)
(*                                                                         *)
(* Python strings are TLA+ strings; %-formatting and + are \o, slices are  *)
(* SubSeq.  A float in [0,1] (the odds) is held as a whole number of       *)
(* half-percents h, standing for h/200, so that 100*odds = h/2 and the     *)
(* ties of round() occur.                                                  *)
(***************************************************************************)
EXTENDS Integers, Sequences, FiniteSets, TLC

VARIABLES
    view,                 \* the class that was instantiated
    options,              \* the options object handed to View.__init__
    pc,                   \* position of the run
    error,                \* the exception that ended the run, "" if none
    column_headers,       \* self.column_headers
    nice_column_headers,  \* self.nice_column_headers
    output_file,          \* self.output_file ("None" for None)
    fs,                   \* the output path on disk: directory, file, content
    truncations,          \* number of times the file was opened with 'w'
    display,              \* what was printed, in order
    iterated,             \* how many tables of parse() the loop has taken
    call                  \* reason: the category of the latest _render_table
                          \* call; L: len(df) in the first call of the run

vars == <<view, options, pc, error, column_headers, nice_column_headers,
          output_file, fs, truncations, display, iterated, call>>

----------------------------------------------------------------------------
(* Bounds of the model *)

MaxN == 2
MaxRows == 2
MaxTables == 2
MaxTeams == 2
MaxSelect == 2

----------------------------------------------------------------------------
(* Strings *)

Min(a, b) == IF a <= b THEN a ELSE b

\* s[-n:] == suf  /  s.endswith(suf)
EndsWith(s, suf) ==
    /\ Len(s) >= Len(suf)
    /\ SubSeq(s, Len(s) - Len(suf) + 1, Len(s)) = suf

\* sub in s
Contains(s, sub) ==
    \E i \in 1..(Len(s) - Len(sub) + 1) : SubSeq(s, i, i + Len(sub) - 1) = sub

\* sep.join(xs)
RECURSIVE Join(_, _)
Join(xs, sep) ==
    IF Len(xs) = 0 THEN ""
    ELSE IF Len(xs) = 1 THEN xs[1]
    ELSE xs[1] \o sep \o Join(Tail(xs), sep)

Range(xs) == {xs[i] : i \in 1..Len(xs)}

LowerHex == "0123456789abcdef"
UpperHex == "0123456789ABCDEF"

\* value of one hexadecimal digit, -1 if the character is not one
HexDigit(c) ==
    IF \E i \in 1..16 : SubSeq(LowerHex, i, i) = c
    THEN (CHOOSE i \in 1..16 : SubSeq(LowerHex, i, i) = c) - 1
    ELSE IF \E i \in 1..16 : SubSeq(UpperHex, i, i) = c
    THEN (CHOOSE i \in 1..16 : SubSeq(UpperHex, i, i) = c) - 1
    ELSE -1

RECURSIVE HexDigits(_, _)
HexDigits(s, acc) ==
    IF Len(s) = 0 THEN acc
    ELSE LET d == HexDigit(SubSeq(s, 1, 1))
         IN  IF d < 0 THEN -1 ELSE HexDigits(SubSeq(s, 2, Len(s)), 16 * acc + d)

\* int(x, 16); -1 stands for ValueError.  The blanks, sign and underscores
\* int() also accepts do not occur in the records and are left out.
IntBase16(x) ==
    LET body == IF Len(x) >= 2 /\ SubSeq(x, 1, 2) \in {"0x", "0X"}
                THEN SubSeq(x, 3, Len(x)) ELSE x
    IN  IF Len(body) = 0 THEN -1 ELSE HexDigits(body, 0)

MaxCodePoint == 1114111

\* chr(n): the one-character string of code point n, written U+<n>
Chr(n) == "U+" \o ToString(n)

\* round(h/2) with a tie rounded up, as Python 2 and most other languages do
RoundHalfUp(h) == (h + 1) \div 2

\* round(h/2) for h >= 0: Python 3 rounds a tie to the even neighbour
RoundHalf(h) ==
    IF h % 2 = 0 THEN h \div 2
    ELSE IF ((h - 1) \div 2) % 2 = 0 THEN (h - 1) \div 2 ELSE (h + 1) \div 2

----------------------------------------------------------------------------
(* View.assemble_column_headers *)

NAMESTYLE_CHOICES == <<"long", "short", "emoji">>

assemble_column_headers(o) ==
    LET base  == <<"season", "day", "isPostseason">>
        nbase == <<"Sea", "Day", "Post">>
        name(pre) == IF o.name_style = "long" THEN <<pre \o "TeamName">>
                     ELSE IF o.name_style = "short" THEN <<pre \o "TeamNickname">>
                     ELSE IF o.name_style = "emoji" THEN <<pre \o "TeamEmoji">>
                     ELSE <<>>
    IN  IF o.win_loss THEN
          << base
               \o (IF o.winning_pitcher THEN <<"winningPitcherName">> ELSE <<>>)
               \o name("winning")
               \o <<"winningOdds", "winningLosingScore", "losingOdds">>
               \o name("losing")
               \o (IF o.losing_pitcher THEN <<"losingPitcherName">> ELSE <<>>),
             nbase
               \o (IF o.winning_pitcher THEN <<"WP">> ELSE <<>>)
               \o <<"Winner", "W Odds", "Score", "L Odds", "Loser">>
               \o (IF o.losing_pitcher THEN <<"LP">> ELSE <<>>) >>
        ELSE IF o.home_away THEN
          << base
               \o (IF o.home_pitcher THEN <<"homePitcherName">> ELSE <<>>)
               \o name("home")
               \o <<"homeOdds", "homeAwayScore", "awayOdds">>
               \o name("away")
               \o (IF o.away_pitcher THEN <<"awayPitcherName">> ELSE <<>>),
             nbase
               \o (IF o.home_pitcher THEN <<"Home P">> ELSE <<>>)
               \o <<"Home", "A Odds", "Score", "A Odds", "Away">>
               \o (IF o.away_pitcher THEN <<"Away P">> ELSE <<>>) >>
        ELSE << base, nbase >>

----------------------------------------------------------------------------
(* View.table_description *)

REASONS == <<"blowout", "shutout", "shame", "underdog", "maxedout", "defensive">>

TEAMNAMES == <<"Tigers", "Crabs", "Tacos", "Moist Talkers">>

\* the roster returned by get_league_division_team_data()
ALLTEAMS == SubSeq(TEAMNAMES, 1, MaxTeams)

Raised(e) == [raised |-> e, value |-> ""]
Returned(v) == [raised |-> "", value |-> v]

\* the team phrase with the roster recognized by the number of teams selected
TeamPhraseByCount(o) ==
    IF Len(o.team) = 1 THEN "for team " \o Join(o.team, "")
    ELSE IF Len(o.team) = Len(ALLTEAMS)
         THEN "for all teams"
         ELSE "for teams " \o Join(o.team, ", ")

\* the team phrase of table_description
TeamPhrase(o) ==
    IF Len(o.team) = 1 THEN "for team " \o Join(o.team, "")
    ELSE IF Cardinality(Range(ALLTEAMS) \ Range(o.team)) = 0
         THEN "for all teams"
         ELSE "for teams " \o Join(o.team, ", ")

table_description(o, reason) ==
    LET head ==
          IF reason = "blowout" THEN
            "Blowout games (games with high scores and high run differentials) "
          ELSE IF reason = "shutout" THEN
            "Shutout games (games where the loser had zero runs) "
          ELSE IF reason = "shame" THEN
            "Shame games (games where the loser was shamed) "
          ELSE IF reason = "underdog" THEN
            "Underdog games (games where the underdog won with large run differential) "
          ELSE IF reason = "maxedout" THEN
            "Maxed out games (high-scoring one-run games) "
          ELSE IF reason = "defensive" THEN
            "Defensive games (low-scoring one-run games) "
          ELSE ""
        scope ==
          IF "all" \in Range(o.season) THEN "for all time "
          ELSE IF Len(o.season) = 1
               THEN "for season " \o Join(o.season, "") \o " "
               ELSE "for seasons " \o Join(o.season, ", ") \o " "
        post == IF o.postseason THEN "(postseason only) " ELSE ""
    IN  IF head = "" THEN Raised("Exception")
        ELSE Returned(head \o scope \o post \o TeamPhrase(o)
                        \o " (note: all days and seasons displayed are 1-indexed)")

----------------------------------------------------------------------------
(* GameData.parse(): the rows of a category, a DataFrame of game records *)

HexOf(i) == SubSeq(UpperHex, (i % 16) + 1, (i % 16) + 1)

\* the i-th record of the data set, i >= 1
GameRecord(i) ==
    [ season               |-> i - 1,
      day                  |-> 9 * i,
      isPostseason         |-> (i % 2 = 0),
      winningPitcherName   |-> "W. Pitcher " \o ToString(i),
      losingPitcherName    |-> "L. Pitcher " \o ToString(i),
      homePitcherName      |-> "H. Pitcher " \o ToString(i),
      awayPitcherName      |-> "A. Pitcher " \o ToString(i),
      winningTeamName      |-> "Hades Tigers " \o ToString(i),
      losingTeamName       |-> "Baltimore Crabs " \o ToString(i),
      homeTeamName         |-> "Unlimited Tacos " \o ToString(i),
      awayTeamName         |-> "Canada Moist Talkers " \o ToString(i),
      winningTeamNickname  |-> "Tigers " \o ToString(i),
      losingTeamNickname   |-> "Crabs " \o ToString(i),
      homeTeamNickname     |-> "Tacos " \o ToString(i),
      awayTeamNickname     |-> "Moist Talkers " \o ToString(i),
      winningTeamEmoji     |-> "0x1F40" \o HexOf(i),
      losingTeamEmoji      |-> "0x1F98" \o HexOf(i),
      homeTeamEmoji        |-> "1F32" \o HexOf(i),
      awayTeamEmoji        |-> "1f4a" \o HexOf(i),
      winningOdds          |-> 75 + 2 * i,
      losingOdds           |-> 125 - 2 * i,
      homeOdds             |-> 74 + i,
      awayOdds             |-> 126 - i,
      winningLosingScore   |-> ToString(9 + i) \o " - " \o ToString(i),
      homeAwayScore        |-> ToString(i) \o " - " \o ToString(9 + i) ]

\* a DataFrame of L rows, in the order parse() delivers them
DataFrame(L) == [i \in 1..L |-> GameRecord(i)]

----------------------------------------------------------------------------
(* _render_table, the part RichView and MarkdownView share line for line:  *)
(* a frame is [cols: the column keys in order, rows: one function from     *)
(* column key to value per row]                                            *)

\* the frame cut to its columns but not to the result limit
CutNoLimit(df, headers, nresults) ==
    [ cols |-> headers,
      rows |-> [i \in 1..Len(df) |-> [k \in Range(headers) |-> df[i][k]]] ]

\* df[self.column_headers][:min(len(df), self.nresults)].copy()
Cut(df, headers, nresults) ==
    [ cols |-> headers,
      rows |-> [i \in 1..Min(Len(df), nresults) |->
                  [k \in Range(headers) |-> df[i][k]]] ]

\* season and day are zero-indexed in the dataframe
PlusOne(cut) ==
    [ cut EXCEPT !.rows = [i \in 1..Len(cut.rows) |->
        [cut.rows[i] EXCEPT !["season"] = @ + 1, !["day"] = @ + 1]] ]

Pre(o) == IF o.win_loss THEN <<"winning", "losing">> ELSE <<"home", "away">>

\* namelabels; <<>> stands for the name left unbound
NameLabels(o) ==
    IF o.name_style = "short" THEN [j \in 1..2 |-> Pre(o)[j] \o "TeamNickname"]
    ELSE IF o.name_style = "long" THEN [j \in 1..2 |-> Pre(o)[j] \o "TeamName"]
    ELSE IF o.name_style = "emoji" THEN [j \in 1..2 |-> Pre(o)[j] \o "TeamEmoji"]
    ELSE <<>>

OddsLabels(o) == [j \in 1..2 |-> Pre(o)[j] \o "Odds"]

\* "%s (%d%%)"%(row[namelabel], round(100*row[oddslabel]))
addodds(row, namelabel, oddslabel) ==
    row[namelabel] \o " (" \o ToString(RoundHalf(row[oddslabel])) \o "%)"

\* What DataFrame.apply(f, axis=1) on a frame without rows hands to the
\* column assignment depends on the pandas release: the assignment either
\* goes through or raises ValueError.
EmptyApplyOutcomes == {"assigns", "ValueError"}

\* the outcomes open to a call: the choice is there only when the underdog
\* branch meets a frame without rows
EmptyApply(reason, L, nresults) ==
    IF reason = "underdog" /\ Min(L, nresults) = 0 THEN EmptyApplyOutcomes
    ELSE {"assigns"}

\* cut[namelabel] = cut[[namelabel, oddslabel]].apply(addodds, axis=1), with
\* its handler: except KeyError: print(cut.columns); print(cut); sys.exit(1)
AddOddsColumn(st, namelabel, oddslabel, emptyApply) ==
    IF st.status # "ok" THEN st
    ELSE IF ~ ({namelabel, oddslabel} \subseteq Range(st.cut.cols))
         THEN [st EXCEPT !.status = "SystemExit"]
    ELSE IF Len(st.cut.rows) = 0
         THEN [st EXCEPT !.status = IF emptyApply = "assigns" THEN "ok" ELSE "ValueError"]
    ELSE [st EXCEPT !.cut.rows = [i \in 1..Len(st.cut.rows) |->
            [st.cut.rows[i] EXCEPT ![namelabel] =
                addodds(st.cut.rows[i], namelabel, oddslabel)]]]

\* if reason=='underdog': the loop over zip(namelabels, oddslabels)
ReplaceTeam(cut, o, reason, emptyApply) ==
    LET st0 == [status |-> "ok", cut |-> cut]
    IN  IF reason # "underdog" THEN st0
        ELSE IF NameLabels(o) = <<>> THEN [st0 EXCEPT !.status = "UnboundLocalError"]
        ELSE AddOddsColumn(
                 AddOddsColumn(st0, NameLabels(o)[1], OddsLabels(o)[1], emptyApply),
                 NameLabels(o)[2], OddsLabels(o)[2], emptyApply)

\* cut.drop(oddslabels, axis=1, inplace=True)
DropOdds(st, o) ==
    IF st.status # "ok" THEN st
    ELSE IF ~ (Range(OddsLabels(o)) \subseteq Range(st.cut.cols))
         THEN [st EXCEPT !.status = "KeyError"]
    ELSE LET keep(k) == k \notin Range(OddsLabels(o))
             cols == SelectSeq(st.cut.cols, keep)
         IN  [st EXCEPT !.cut = [cols |-> cols,
                 rows |-> [i \in 1..Len(st.cut.rows) |->
                             [k \in Range(cols) |-> st.cut.rows[i][k]]]]]

\* a filter that knows the odds labels ("W Odds") but not the odds keys
NoOddsLabel(j) == ~ Contains(j, " Odds")

\* [j for j in headers if 'Odds' not in j]
NoOdds(j) == ~ Contains(j, "Odds")
RemoveOddsHeaders(headers) == SelectSeq(headers, NoOdds)

\* postseason_lambda of the two views
postseason_lambda(v, c) ==
    IF v = "RichView" THEN (IF c = FALSE THEN " " ELSE "Y")
                      ELSE (IF c = FALSE THEN "" ELSE "*")

FormatPostseason(cut, v) ==
    [ cut EXCEPT !.rows = [i \in 1..Len(cut.rows) |->
        [cut.rows[i] EXCEPT !["isPostseason"] = postseason_lambda(v, @)]] ]

\* emoji_lambda = lambda x: chr(int(x, 16)); "" stands for ValueError
emoji_lambda(x) ==
    LET n == IntBase16(x)
    IN  IF n < 0 \/ n > MaxCodePoint THEN "" ELSE Chr(n)

IsEmojiHeader(column_header) == EndsWith(column_header, "Emoji")

\* the loop over self.column_headers that decodes the Emoji columns
FormatEmoji(st, headers) ==
    LET emo == {k \in Range(headers) : IsEmojiHeader(k)}
    IN  IF \E k \in emo : k \notin Range(st.cut.cols)
        THEN [st EXCEPT !.status = "KeyError"]
        ELSE IF \E k \in emo, i \in 1..Len(st.cut.rows) :
                   emoji_lambda(st.cut.rows[i][k]) = ""
        THEN [st EXCEPT !.status = "ValueError"]
        ELSE [st EXCEPT !.cut.rows = [i \in 1..Len(st.cut.rows) |->
                [k \in Range(st.cut.cols) |->
                    IF k \in emo THEN emoji_lambda(st.cut.rows[i][k])
                                 ELSE st.cut.rows[i][k]]]]

\* cut.applymap(str): the numbers left are the season and the day
ApplyStr(cut) ==
    [ cut EXCEPT !.rows = [i \in 1..Len(cut.rows) |->
        [k \in Range(cut.cols) |->
            IF k \in {"season", "day"} THEN ToString(cut.rows[i][k])
                                       ELSE cut.rows[i][k]]] ]

\* Lines 222-280 (RichView) and 328-387 (MarkdownView): the frame that is
\* serialized, the two header lists as the call leaves them, and how far
\* the call got.
Transform(v, o, headers, nice, nresults, df, reason, emptyApply) ==
    LET cut1 == PlusOne(Cut(df, headers, nresults))
        st4  == ReplaceTeam(cut1, o, reason, emptyApply)
        st5  == DropOdds(st4, o)
    IN  IF st5.status # "ok"
        THEN [status |-> st5.status, cut |-> st5.cut,
              column_headers |-> headers, nice_column_headers |-> nice]
        ELSE LET h2  == RemoveOddsHeaders(headers)
                 n2  == RemoveOddsHeaders(nice)
                 st7 == FormatEmoji([st5 EXCEPT !.cut = FormatPostseason(@, v)], h2)
             IN  [status |-> st7.status,
                  cut |-> IF st7.status = "ok" THEN ApplyStr(st7.cut) ELSE st7.cut,
                  column_headers |-> h2, nice_column_headers |-> n2]

----------------------------------------------------------------------------
(* Serialization.  A table is [keys, header, align: one entry per emitted  *)
(* column; rowkeys: the keys of the cells of a row; rows: the cells]       *)

NoTable == [keys |-> <<>>, header |-> <<>>, align |-> <<>>,
            rowkeys |-> <<>>, rows |-> <<>>]

\* zip(self.column_headers, self.nice_column_headers)
ZipLen(headers, nice) == Min(Len(headers), Len(nice))

\* RichView: table.add_column(...) per header pair, table.add_row(*row.values)
RichJustify(name_style, column_header) ==
    IF column_header = "losingScore" \/ column_header = "awayScore" THEN "right"
    ELSE IF name_style = "emoji" /\ EndsWith(column_header, "Emoji") THEN "center"
    ELSE "default"

RichTable(cut, headers, nice, name_style) ==
    [ keys    |-> SubSeq(headers, 1, ZipLen(headers, nice)),
      header  |-> SubSeq(nice, 1, ZipLen(headers, nice)),
      align   |-> [j \in 1..ZipLen(headers, nice) |-> RichJustify(name_style, headers[j])],
      rowkeys |-> cut.cols,
      rows    |-> [i \in 1..Len(cut.rows) |->
                     [j \in 1..Len(cut.cols) |-> cut.rows[i][cut.cols[j]]]] ]

\* MarkdownView: the separator cell of a column
MarkdownSep(name_style, column_header) ==
    IF column_header = "losingScore" \/ column_header = "awayScore" THEN "------: | "
    ELSE IF name_style = "emoji" /\ EndsWith(column_header, "Emoji") THEN ":------: | "
    ELSE "------ |"

NotPostseason(k) == k # "isPostseason"

MarkdownTable(cut, headers, nice, name_style) ==
    LET n    == ZipLen(headers, nice)
        idx  == SelectSeq([j \in 1..n |-> j], LAMBDA j : headers[j] # "isPostseason")
        rk   == SelectSeq(cut.cols, NotPostseason)
    IN  [ keys    |-> [j \in 1..Len(idx) |-> headers[idx[j]]],
          header  |-> [j \in 1..Len(idx) |-> nice[idx[j]]],
          align   |-> [j \in 1..Len(idx) |-> MarkdownSep(name_style, headers[idx[j]])],
          rowkeys |-> rk,
          rows    |-> [i \in 1..Len(cut.rows) |->
                         [j \in 1..Len(rk) |->
                            IF rk[j] = "day"
                            THEN cut.rows[i]["day"] \o cut.rows[i]["isPostseason"]
                            ELSE cut.rows[i][rk[j]]]] ]

Block(kind, description, table) ==
    [kind |-> kind, description |-> description, table |-> table]

\* what an existing output file holds before the run
StaleContent == <<Block("stale", "", NoTable)>>

----------------------------------------------------------------------------
(* The run *)

OutputPath == "games.md"

Options(wl, ha, wp, lp, hp, ap, style, n, out, season, post, team) ==
    [ win_loss |-> wl, home_away |-> ha,
      winning_pitcher |-> wp, losing_pitcher |-> lp,
      home_pitcher |-> hp, away_pitcher |-> ap,
      name_style |-> style, n_results |-> n, output |-> out,
      season |-> season, postseason |-> post, team |-> team ]

\* name styles handed in: the three choices and one that is none of them
NameStyles == Range(NAMESTYLE_CHOICES) \cup {"tiny"}

\* The pitcher flags of the orientation that is not taken are never read;
\* they are left unset.
OrientationOptions ==
    { f \in [ {"win_loss", "home_away", "winning_pitcher", "losing_pitcher",
               "home_pitcher", "away_pitcher"} -> BOOLEAN ] :
        /\ (f["winning_pitcher"] \/ f["losing_pitcher"]) => f["win_loss"]
        /\ (f["home_pitcher"] \/ f["away_pitcher"]) => (f["home_away"] /\ ~ f["win_loss"]) }

\* the state of the output path on disk before the run
FsStates ==
    { [dir |-> TRUE,  exists |-> TRUE,  content |-> StaleContent],
      [dir |-> TRUE,  exists |-> FALSE, content |-> <<>>],
      [dir |-> FALSE, exists |-> FALSE, content |-> <<>>] }

NoCall == [reason |-> "", L |-> 0]

Init ==
    /\ view \in {"RichView", "MarkdownView"}
    /\ \E f \in OrientationOptions, style \in NameStyles, n \in 0..MaxN,
          out \in {"", OutputPath} :
         options = Options(f["win_loss"], f["home_away"], f["winning_pitcher"],
                           f["losing_pitcher"], f["home_pitcher"], f["away_pitcher"],
                           style, n, out, <<"all">>, FALSE, ALLTEAMS)
    /\ fs \in FsStates
    /\ (options.output = "" => fs.dir /\ ~ fs.exists)
    /\ pc = "new"
    /\ error = ""
    /\ column_headers = <<>>
    /\ nice_column_headers = <<>>
    /\ output_file = "None"
    /\ truncations = 0
    /\ display = <<>>
    /\ iterated = 0
    /\ call = NoCall

\* View.__init__
Construct ==
    /\ pc = "new"
    /\ column_headers' = assemble_column_headers(options)[1]
    /\ nice_column_headers' = assemble_column_headers(options)[2]
    /\ IF options.output = ""
       THEN /\ output_file' = "None"
            /\ pc' = "ready"
            /\ UNCHANGED <<error, fs, truncations, display>>
       ELSE /\ output_file' = options.output
            /\ IF fs.exists
               THEN /\ display' = Append(display, Block("warning", "", NoTable))
                    /\ fs' = [fs EXCEPT !.content = <<>>]
                    /\ truncations' = truncations + 1
                    /\ pc' = "ready"
                    /\ UNCHANGED error
               ELSE IF ~ fs.dir
               THEN /\ pc' = "aborted"
                    /\ error' = "Exception"
                    /\ UNCHANGED <<fs, truncations, display>>
               ELSE /\ pc' = "ready"
                    /\ UNCHANGED <<error, fs, truncations, display>>
    /\ UNCHANGED <<view, options, iterated, call>>

\* make_table: tables = self.game_data.parse()
MakeTable ==
    /\ pc = "ready"
    /\ pc' = "running"
    /\ UNCHANGED <<view, options, error, column_headers, nice_column_headers,
                   output_file, fs, truncations, display, iterated, call>>

\* the caption make_table hands to _render_table
Caption(v, d) ==
    IF v = "MarkdownView" THEN d \o " (asterisk indicates a postseason game)" ELSE d

\* the table _render_table serializes from the transformed frame
Serialize(v, t, name_style) ==
    IF v = "RichView"
    THEN RichTable(t.cut, t.column_headers, t.nice_column_headers, name_style)
    ELSE MarkdownTable(t.cut, t.column_headers, t.nice_column_headers, name_style)

\* a call that writes its caption before it transforms the frame
EmittedCaptionFirst(v, t, description, name_style) ==
    IF t.status = "ok"
    THEN <<Block("table", description, Serialize(v, t, name_style))>>
    ELSE <<Block("table", description, NoTable)>>

\* What a _render_table call writes: the caption and the table once the
\* frame is transformed, the dump of the except branch before sys.exit(1),
\* nothing when an exception leaves the call.
Emitted(v, t, description, name_style) ==
    IF t.status = "ok"
    THEN <<Block("table", description, Serialize(v, t, name_style))>>
    ELSE IF t.status = "SystemExit" THEN <<Block("dump", "", NoTable)>>
    ELSE <<>>

\* one iteration of the loop of make_table: table_description, _render_table
RenderNext(reason, L, emptyApply) ==
    /\ pc = "running"
    /\ iterated < MaxTables
    /\ iterated' = iterated + 1
    /\ call' = [reason |-> reason, L |-> IF iterated = 0 THEN L ELSE call.L]
    /\ LET d == table_description(options, reason)
           t == Transform(view, options, column_headers, nice_column_headers,
                          options.n_results, DataFrame(L), reason, emptyApply)
           out == Emitted(view, t, Caption(view, d.value), options.name_style)
       IN  IF d.raised # ""
           THEN /\ pc' = "aborted"
                /\ error' = d.raised
                /\ UNCHANGED <<column_headers, nice_column_headers, fs, display>>
           ELSE /\ column_headers' = t.column_headers
                /\ nice_column_headers' = t.nice_column_headers
                /\ pc' = IF t.status = "ok" THEN pc ELSE "aborted"
                /\ error' = IF t.status = "ok" THEN error ELSE t.status
                /\ IF view = "MarkdownView" /\ output_file # "None"
                      /\ out # <<>> /\ out[1].kind = "table"
                   THEN /\ fs' = [fs EXCEPT !.exists = TRUE, !.content = @ \o out]
                        /\ UNCHANGED display
                   ELSE /\ display' = display \o out
                        /\ UNCHANGED fs
    /\ UNCHANGED <<view, options, output_file, truncations>>

\* the loop of make_table has gone through everything parse() returned
LoopEnd ==
    /\ pc = "running"
    /\ pc' = "done"
    /\ UNCHANGED <<view, options, error, column_headers, nice_column_headers,
                   output_file, fs, truncations, display, iterated, call>>

\* len(df) of the table the loop takes next.  A call after the first fails
\* on the columns of its frame before any row is read (cut[[namelabel,
\* oddslabel]], cut.drop), so only the first frame varies in length.
FrameLengths == IF iterated = 0 THEN 0..MaxRows ELSE {MaxRows}

Next ==
    \/ Construct
    \/ MakeTable
    \/ \E reason \in Range(REASONS), L \in FrameLengths :
          \E e \in EmptyApply(reason, L, options.n_results) : RenderNext(reason, L, e)
    \/ LoopEnd

Spec == Init /\ [][Next]_vars

----------------------------------------------------------------------------
(* table_description on its own: the caption for every scope *)

Labels == {"all", "3", "4"}

SeqsOver(S, lo, hi) == UNION { [1..n -> S] : n \in lo..hi }

InitDesc ==
    /\ view = "RichView"
    /\ \E season \in SeqsOver(Labels, 1, MaxSelect), post \in BOOLEAN,
          team \in SeqsOver(Range(ALLTEAMS), 1, MaxTeams) :
         options = Options(TRUE, FALSE, FALSE, FALSE, FALSE, FALSE,
                           "long", 1, "", season, post, team)
    /\ fs = [dir |-> TRUE, exists |-> FALSE, content |-> <<>>]
    /\ pc = "describe"
    /\ error = ""
    /\ column_headers = <<>>
    /\ nice_column_headers = <<>>
    /\ output_file = "None"
    /\ truncations = 0
    /\ display = <<>>
    /\ iterated = 0
    /\ call = NoCall

\* a category that is none of the six
OtherReason == "boring"

\* desc = self.table_description(reason)
Describe(reason) ==
    /\ pc = "describe"
    /\ pc' = "described"
    /\ call' = [reason |-> reason, L |-> 0]
    /\ error' = table_description(options, reason).raised
    /\ display' = <<Block("caption", table_description(options, reason).value, NoTable)>>
    /\ UNCHANGED <<view, options, column_headers, nice_column_headers,
                   output_file, fs, truncations, iterated>>

NextDesc == \E reason \in Range(REASONS) \cup {OtherReason} : Describe(reason)

SpecDesc == InitDesc /\ [][NextDesc]_vars

----------------------------------------------------------------------------
(* Vocabulary of the properties *)

IsTable(b) == b.kind = "table"
TableBlocks(blocks) == SelectSeq(blocks, IsTable)

\* every table of the run, on the display or in the output file
RenderedTables == TableBlocks(display) \o TableBlocks(fs.content)

Recognized == options.name_style \in Range(NAMESTYLE_CHOICES)
Oriented == options.win_loss \/ options.home_away

\* the first _render_table call of the run has emitted its table
FirstRendered == iterated = 1 /\ error = "" /\ Len(RenderedTables) = 1
FirstTable == RenderedTables[1].table

Position(keys, k) == CHOOSE p \in 1..Len(keys) : keys[p] = k

\* the cell of row i of table t under key k
Cell(t, i, k) == t.rows[i][Position(t.rowkeys, k)]

NameSuffix ==
    IF options.name_style = "long" THEN "TeamName"
    ELSE IF options.name_style = "short" THEN "TeamNickname" ELSE "TeamEmoji"

Sides == IF options.win_loss THEN <<"winning", "losing">> ELSE <<"home", "away">>

ScoreKey == IF options.win_loss THEN "winningLosingScore" ELSE "homeAwayScore"

FirstPitcher ==
    IF options.win_loss THEN options.winning_pitcher ELSE options.home_pitcher
SecondPitcher ==
    IF options.win_loss THEN options.losing_pitcher ELSE options.away_pitcher

\* Season | Game | [Pitcher] | Team | Score | Team | [Pitcher], the odds
\* keys on either side of the score while they are there
Layout(withOdds) ==
    <<"season", "day", "isPostseason">>
      \o (IF FirstPitcher THEN <<Sides[1] \o "PitcherName">> ELSE <<>>)
      \o <<Sides[1] \o NameSuffix>>
      \o (IF withOdds THEN <<Sides[1] \o "Odds">> ELSE <<>>)
      \o <<ScoreKey>>
      \o (IF withOdds THEN <<Sides[2] \o "Odds">> ELSE <<>>)
      \o <<Sides[2] \o NameSuffix>>
      \o (IF SecondPitcher THEN <<Sides[2] \o "PitcherName">> ELSE <<>>)

\* the label the planner put beside key k
PairedLabel(k) ==
    LET plan == assemble_column_headers(options)
    IN  plan[2][Position(plan[1], k)]

\* the whole number nearest to h/2, the even one of the two when h is odd
Percent(h) ==
    CHOOSE p \in 0..100 :
        /\ 2 * p - h \in -1..1
        /\ (2 * p # h => p % 2 = 0)

----------------------------------------------------------------------------
C2_Claim ==
    pc # "new" =>
        /\ (~ Oriented \/ ~ Recognized) => (pc = "aborted" /\ column_headers = <<>>)
        /\ Len(column_headers) = Len(nice_column_headers)

(* C3: after a first _render_table call stripped the odds entries, a later *)
(* call whose category is not underdog completes and emits its table, and  *)
(* a later call whose category is underdog fails.                          *)
C3_Claim ==
    iterated >= 2 =>
        IF call.reason = "underdog"
        THEN pc = "aborted"
        ELSE error = "" /\ Len(RenderedTables) = iterated

(* C4: with an output file configured the file is truncated at most once,  *)
(* at setup, and after a MarkdownView run over k categories it holds       *)
(* exactly k caption-plus-table blocks (here for k >= 2).                  *)
C4_Claim ==
    (view = "MarkdownView" /\ output_file # "None"
       /\ pc \in {"done", "aborted"} /\ iterated >= 2) =>
        /\ truncations <= 1
        /\ Len(TableBlocks(fs.content)) = iterated

(* C5: in the first table rendered in a run, an underdog table shows each  *)
(* side's team name as "<name> (<P>%)" with P that side's odds times 100   *)
(* rounded to a whole number, any other table shows the names without the  *)
(* annotation, and no odds key is left among the emitted columns or cells. *)
C5_OddsAnnotation ==
    FirstRendered =>
        /\ \A k \in Range(FirstTable.keys) \cup Range(FirstTable.rowkeys) :
              ~ Contains(k, "Odds")
        /\ \A i \in 1..Len(FirstTable.rows) :
              /\ Len(FirstTable.rows[i]) = Len(FirstTable.rowkeys)
              /\ \A j \in 1..2 : Recognized =>
                   LET name == GameRecord(i)[Sides[j] \o NameSuffix]
                       odds == GameRecord(i)[Sides[j] \o "Odds"]
                       cell == Cell(FirstTable, i, Sides[j] \o NameSuffix)
                   IN  IF call.reason = "underdog"
                       THEN cell = name \o " (" \o ToString(Percent(odds)) \o "%)"
                       ELSE /\ ~ Contains(cell, "%)")
                            /\ options.name_style # "emoji" => cell = name

C5_Witness ==
    /\ FirstRendered /\ call.reason = "underdog"
    /\ options.name_style = "short" /\ options.win_loss
    /\ Len(FirstTable.rows) = 2
    /\ Cell(FirstTable, 1, "winningTeamNickname") = "Tigers 1 (38%)"
    /\ Cell(FirstTable, 2, "losingTeamNickname") = "Crabs 2 (60%)"

(* C6: with name_style emoji, for each of the six categories and both      *)
(* orientations, a first render of a frame with rows completes and shows   *)
(* under every key ending in Emoji the character of the record's code      *)
(* point; the underdog annotation does not stand in the way.               *)
C6_Claim ==
    (options.name_style = "emoji" /\ Oriented /\ iterated = 1
       /\ Min(call.L, options.n_results) >= 1) =>
        /\ error = ""
        /\ Len(RenderedTables) = 1
        /\ \A i \in 1..Len(FirstTable.rows), j \in 1..2 :
              Contains(Cell(FirstTable, i, Sides[j] \o "TeamEmoji"),
                       Chr(IntBase16(GameRecord(i)[Sides[j] \o "TeamEmoji"])))

(* C7: in every rendered table the score column is right-justified, the    *)
(* emoji name columns are centered and every other column has the default  *)
(* alignment.                                                              *)
C7_Claim ==
    \A n \in 1..Len(RenderedTables) :
        LET t == RenderedTables[n].table
        IN  \A j \in 1..Len(t.keys) :
              t.align[j] \in
                 IF t.keys[j] \in {"winningLosingScore", "homeAwayScore"}
                 THEN {"right", "------: | "}
                 ELSE IF EndsWith(t.keys[j], "Emoji")
                 THEN {"center", ":------: | "}
                 ELSE {"default", "------ |"}

C9_Truncation ==
    FirstRendered =>
        /\ Len(FirstTable.rows) = Min(options.n_results, call.L)
        /\ \A i \in 1..Len(FirstTable.rows) :
              /\ Cell(FirstTable, i, "season") = ToString(GameRecord(i).season + 1)
              /\ Cell(FirstTable, i, "day") =
                    ToString(GameRecord(i).day + 1)
                      \o (IF view = "MarkdownView" /\ GameRecord(i).isPostseason
                          THEN "*" ELSE "")
              /\ Cell(FirstTable, i, ScoreKey) = GameRecord(i)[ScoreKey]

C9_Witness ==
    /\ FirstRendered /\ call.L = 2 /\ options.n_results = 1
    /\ Len(FirstTable.rows) = 1
    /\ Cell(FirstTable, 1, "season") = "1"
    /\ Cell(FirstTable, 1, "day") = "10"

(* C10: the caption says "for all time" for the season selector "all",     *)
(* "for season X" for one season label, "for seasons X, Y" for several;    *)
(* "for all teams" exactly when the selected teams are the whole roster in *)
(* any order, "for team X" for a single selected team, "for teams X, Y"    *)
(* otherwise; "(postseason only)" exactly when the postseason flag is set; *)
(* and a category outside the six raises instead of returning a caption.   *)
C10_Caption ==
    pc = "described" =>
        LET desc == display[1].description
            season == options.season
            team == options.team
        IN  IF call.reason \notin Range(REASONS)
            THEN error # "" /\ desc = ""
            ELSE /\ error = ""
                 /\ season = <<"all">> => Contains(desc, ") for all time ")
                 /\ (Len(season) = 1 /\ season[1] # "all") =>
                       Contains(desc, ") for season " \o season[1] \o " ")
                 /\ (Len(season) > 1 /\ "all" \notin Range(season)) =>
                       Contains(desc, ") for seasons " \o Join(season, ", ") \o " ")
                 /\ Contains(desc, "(postseason only)") <=> options.postseason
                 /\ Contains(desc, " for all teams (note")
                       <=> Range(team) = Range(ALLTEAMS)
                 /\ Len(team) = 1 =>
                       Contains(desc, " for team " \o team[1] \o " (note")
                 /\ (Len(team) # 1 /\ Range(team) # Range(ALLTEAMS)) =>
                       Contains(desc, " for teams " \o Join(team, ", ") \o " (note")

C10_Witness ==
    /\ pc = "described" /\ error = ""
    /\ Range(options.team) = Range(ALLTEAMS) /\ options.team # ALLTEAMS
    /\ options.season = <<"3", "4">> /\ options.postseason
    /\ Contains(display[1].description,
                "for seasons 3, 4 (postseason only) for all teams")

====
